---------------------------- MODULE Spec2Model ----------------------------
(***************************************************************************)
(* Model of the p5.asciify "accurate" renderer plugin.                     *)
(*                                                                         *)
(* Colours are RGBA byte records (a channel value v stands for v/255).     *)
(* Texture coordinates are exact rationals <<num, den>>; textures are      *)
(* sampled NEAREST with clamp-to-edge, as the framebuffers are created.    *)
(* Luminance is kept in units of 1/(255*1000) so that the weights          *)
(* 0.299/0.587/0.114 and the epsilon 0.01 are exact integers.              *)
(* Floating-point rounding inside a shader is not modelled.                *)
(***************************************************************************)
EXTENDS Integers, Sequences, FiniteSets, TLC

VARIABLES
    env,              \* load-time environment: the imported host module and window
    cachedBaseClass,  \* module-level cache of the resolved base class
    loadState,        \* "unloaded" | "loaded" | "failed"
    loadError,        \* the Error thrown by getBaseClass, when loading failed
    defaultOptions,   \* the module's object ACCURATE_DEFAULT_OPTIONS
    capture,          \* host capture framebuffer: [width, height, scene]
    grid,             \* host grid: [cols, rows, cellWidth, cellHeight]
    font,             \* host font manager: [fontSize, textureColumns, textureRows, palette]
    pixelDensity,     \* p.pixelDensity()
    options,          \* this._options
    optionsRef,       \* the object this._options refers to: "merged" is the
                      \* constructor's own copy, "defaults" the module's object,
                      \* "caller" the object the caller passed
    shaders,          \* the four shader programs, by their generator parameters
    fbSize,           \* dimensions of the seven framebuffers
    fbData,           \* contents of the seven framebuffers
    log,              \* GPU commands issued by the last render() call
    glyphTests,       \* per cell, the glyph comparisons of the last character pass
    hostSync,         \* which hooks the host has called since its last change,
                      \* the colour modes it configured last, those that its
                      \* last update() changed from sampled to fixed, and the
                      \* options argument it passed to create(), kept until
                      \* update() first writes the options
    lastOp,           \* the lifecycle call that produced the current state
    prevOp            \* the lifecycle call before it

vars == <<env, cachedBaseClass, loadState, loadError, defaultOptions, capture,
          grid, font, pixelDensity, options, optionsRef, shaders, fbSize, fbData,
          log, glyphTests, hostSync, lastOp, prevOp>>

loadVars == <<env, cachedBaseClass, loadState, loadError>>

----------------------------------------------------------------------------
(* Bounds of the model *)

MaxCanvas == 3
MaxFontSize == 2
MaxPixelDensity == 2
MaxPaletteLen == 3
MaxGlobals == 2
GlyphSize == 2

----------------------------------------------------------------------------
(* Program constants *)

\* const float EPSILON = 0.01, in units of 1/10000
EPSILON == 100
\* for(int u=0;u<1024;u++) in the character selection shader
MaxPaletteLoop == 1024
\* generateColorSampleShader(16, ...)
ColorBuckets == 16
\* luminance weights 0.299 / 0.587 / 0.114, in thousandths
LumaR == 299
LumaG == 587
LumaB == 114

----------------------------------------------------------------------------
(* Colours and textures *)

Min(a, b) == IF a < b THEN a ELSE b
Max(a, b) == IF a > b THEN a ELSE b

RGBA(r, g, b, a) == [r |-> r, g |-> g, b |-> b, a |-> a]
Gray(v) == RGBA(v, v, v, 255)
Zero4 == RGBA(0, 0, 0, 0)

\* texture2D with NEAREST filtering and clamp-to-edge: the texel index that a
\* normalised coordinate num/den selects in a texture of `size` texels.
TexelIndex(num, den, size) ==
    LET i == (num * size) \div den
    IN  IF i < 0 THEN 0 ELSE IF i > size - 1 THEN size - 1 ELSE i

\* clamp(c, 0., 1.) on a rational coordinate
Clamp01(c) ==
    IF c[1] < 0 THEN <<0, 1>> ELSE IF c[1] > c[2] THEN <<1, 1>> ELSE c

\* The normalised coordinate of sub-sample s (of n) of cell c (of cells):
\* (c*e + (s + .5) * (e/n)) / size with e = size/cells.
SubSampleCoord(c, s, n, cells) == <<2 * (c * n + s) + 1, 2 * n * cells>>

\* 0.299*r + 0.587*g + 0.114*b, in units of 1/(255*1000)
Luma(c) == LumaR * c.r + LumaG * c.g + LumaB * c.b

\* A float in [0,1] written to an 8-bit colour attachment: sum/(n*1000) bytes,
\* rounded to the nearest byte.
ToByte(sum, n) == Min(255, (2 * sum + 1000 * n) \div (2000 * n))

----------------------------------------------------------------------------
(* The host's capture framebuffer.  Its content is one of a few scenes.    *)

Scenes == {"gray", "clear", "stripes", "subtle", "edge", "alpha", "colors",
           "pastel"}

ScenePixel(scene, x, y) ==
    CASE scene = "gray"    -> Gray(128)
      [] scene = "clear"   -> Zero4
      [] scene = "stripes" -> IF x % 2 = 0 THEN Gray(0) ELSE Gray(255)
      [] scene = "subtle"  -> Gray(100 + ((x + y) % 2) * 2 + (y % 2))
      [] scene = "edge"    -> IF x = 0 THEN Zero4
                              ELSE IF y % 2 = 0 THEN RGBA(255, 0, 0, 255)
                              ELSE RGBA(0, 0, 255, 255)
      [] scene = "alpha"   -> IF (x + y) % 2 = 0 THEN RGBA(255, 255, 255, 2)
                              ELSE RGBA(40, 40, 40, 3)
      [] scene = "colors"  -> IF (x + y) % 3 = 0 THEN RGBA(200, 0, 0, 255)
                              ELSE IF (x + y) % 3 = 1 THEN RGBA(0, 90, 0, 255)
                              ELSE Gray(0)
      [] scene = "pastel"  -> RGBA(100 + x, 100, 100 + y, 255)

CapturePixel(cap, x, y) == ScenePixel(cap.scene, x, y)

\* texture2D(u_inputImage, coord)
SampleCapture(cap, cx, cy) ==
    CapturePixel(cap, TexelIndex(cx[1], cx[2], cap.width),
                      TexelIndex(cy[1], cy[2], cap.height))

\* texture2D on a framebuffer given by its size <<w, h>> and content
SampleFb(size, data, cx, cy) ==
    data[<<TexelIndex(cx[1], cx[2], size[1]), TexelIndex(cy[1], cy[2], size[2])>>]

Fragments(size) == (0 .. size[1] - 1) \X (0 .. size[2] - 1)


----------------------------------------------------------------------------
(* Brightness Sampler: generateBrightnessSampleShader(cellHeight, cellWidth) *)
(* const int u = first parameter, f = second parameter.                      *)

\* The sub-samples of one cell in loop order: for s < u, for g < f.
SubSamples(u, f) == [k \in 1 .. u * f |-> <<(k - 1) \div f, (k - 1) % f>>]

\* vec2 m = clamp((v + (vec2(s, g) + .5) * (e / vec2(u, f))) / u_inputImageSize, 0., 1.)
CellSampleCoord(cols, rows, u, f, cx, cy, sg) ==
    <<Clamp01(SubSampleCoord(cx, sg[1], u, cols)),
      Clamp01(SubSampleCoord(cy, sg[2], f, rows))>>

RECURSIVE SumLuma(_, _, _, _, _, _, _, _)
SumLuma(cap, cols, rows, u, f, cx, cy, k) ==
    IF k = 0 THEN 0
    ELSE LET m == CellSampleCoord(cols, rows, u, f, cx, cy, SubSamples(u, f)[k])
         IN  SumLuma(cap, cols, rows, u, f, cx, cy, k - 1)
               + Luma(SampleCapture(cap, m[1], m[2]))

\* Variant: the sum divided by the count of one axis only.
BrightnessSampleFragOneAxis(cap, cols, rows, u, f, cx, cy) ==
    Gray(ToByte(SumLuma(cap, cols, rows, u, f, cx, cy, u * f), u))

\* i /= float(u*f); gl_FragColor = vec4(vec3(i), 1)
BrightnessSampleFrag(cap, cols, rows, u, f, cx, cy) ==
    Gray(ToByte(SumLuma(cap, cols, rows, u, f, cx, cy, u * f), u * f))

----------------------------------------------------------------------------
(* Brightness Splitter: brightnessSplit.frag *)

\* Variant: only an alpha of exactly zero counts as transparent.
BelowEpsilonAlphaZeroOnly(c) == c.a = 0

\* originalColor.a < EPSILON
BelowEpsilonAlpha(c) == c.a * 10000 < 255 * EPSILON

\* Variant: the comparison without the epsilon tolerance.
SplitValueNoEpsilon(fragmentBrightness, averageBrightness) ==
    IF fragmentBrightness - 1000 * averageBrightness < 0 THEN 0 ELSE 255

\* brightnessDifference < -EPSILON ? 0.0 : 1.0
SplitValue(fragmentBrightness, averageBrightness) ==
    IF (fragmentBrightness - 1000 * averageBrightness) * 10 < -(EPSILON * 255)
    THEN 0 ELSE 255

BrightnessSplitFrag(cap, bsSize, bsData, cols, rows, ratio, fx, fy) ==
    LET lx == fx \div ratio      \* floor(gl_FragCoord.xy / u_pixelRatio)
        ly == fy \div ratio
        originalColor == SampleCapture(cap, <<lx, cap.width>>, <<ly, cap.height>>)
        gridX == Max(0, Min(cols - 1, (lx * cols) \div cap.width))
        gridY == Max(0, Min(rows - 1, (ly * rows) \div cap.height))
        averageBrightness ==
            SampleFb(bsSize, bsData, <<2 * gridX + 1, 2 * cols>>,
                                     <<2 * gridY + 1, 2 * rows>>).r
    IN  IF BelowEpsilonAlpha(originalColor) THEN Zero4
        ELSE Gray(SplitValue(Luma(originalColor), averageBrightness))

----------------------------------------------------------------------------
(* Color Sampler: generateColorSampleShader(16, cellHeight, cellWidth)      *)
(* const int e = buckets, u = second parameter, f = third parameter.        *)

SameRGB(a, b) == a.r = b.r /\ a.g = b.g /\ a.b = b.b

\* float r = step(.5, d.x); rank 1 takes r > .5, rank 2 takes r <= .5
MatchesRank(rank, d) ==
    LET r == IF 2 * d.r >= 255 THEN 1 ELSE 0
    IN  (rank = 1 /\ r = 1) \/ (rank = 2 /\ r = 0)

\* The first index in 1..e satisfying P, or 0 (a loop with break).
FirstIndex(e, P(_)) ==
    IF \E i \in 1 .. e : P(i)
    THEN CHOOSE i \in 1 .. e : P(i) /\ \A j \in 1 .. i - 1 : ~P(j)
    ELSE 0

\* One matching sub-sample m tallied into the buckets [c, b].
Tally(bk, m, e) ==
    LET hit == FirstIndex(e, LAMBDA i : SameRGB(m, bk.c[i]))
        free == FirstIndex(e, LAMBDA i : bk.b[i] = 0)
    IN  IF hit # 0 THEN [bk EXCEPT !.b[hit] = @ + 1]
        ELSE IF free # 0 THEN [c |-> [bk.c EXCEPT ![free] = m],
                               b |-> [bk.b EXCEPT ![free] = 1]]
        ELSE bk

EmptyBuckets(e) == [c |-> [i \in 1 .. e |-> Zero4], b |-> [i \in 1 .. e |-> 0]]

RECURSIVE TallyCell(_, _, _, _, _, _, _, _, _, _, _, _)
TallyCell(cap, bwSize, bwData, cols, rows, e, u, f, rank, cx, cy, k) ==
    IF k = 0 THEN EmptyBuckets(e)
    ELSE LET prev == TallyCell(cap, bwSize, bwData, cols, rows, e, u, f, rank,
                               cx, cy, k - 1)
             s == CellSampleCoord(cols, rows, u, f, cx, cy, SubSamples(u, f)[k])
             m == SampleCapture(cap, s[1], s[2])
             d == SampleFb(bwSize, bwData, s[1], s[2])
         IN  IF prev.b[1] >= 0   \* the sub-samples before it have been tallied
                /\ MatchesRank(rank, d)
             THEN Tally(prev, m, e) ELSE prev

\* Variant: a non-strict comparison, so that the last of equal counts wins.
RECURSIVE MostFrequentLastWins(_, _)
MostFrequentLastWins(bk, i) ==
    IF i = 0 THEN [z |-> 0, m |-> Zero4]
    ELSE LET prev == MostFrequentLastWins(bk, i - 1)
         IN  IF bk.b[i] >= prev.z /\ bk.b[i] > 0 THEN [z |-> bk.b[i], m |-> bk.c[i]]
             ELSE prev

\* for i < e: if (b[i] > z) z = b[i], m = c[i]
RECURSIVE MostFrequent(_, _)
MostFrequent(bk, i) ==
    IF i = 0 THEN [z |-> 0, m |-> Zero4]
    ELSE LET prev == MostFrequent(bk, i - 1)
         IN  IF bk.b[i] > prev.z THEN [z |-> bk.b[i], m |-> bk.c[i]] ELSE prev

\* Variant: the sampler without the fallback of rank 2.
ColorSampleFragNoFallback(cap, bwSize, bwData, cols, rows, e, u, f, rank, cx, cy) ==
    LET bk == TallyCell(cap, bwSize, bwData, cols, rows, e, u, f, rank, cx, cy, u * f)
        best == MostFrequent(bk, e)
    IN  RGBA(best.m.r, best.m.g, best.m.b, 255)

\* Variant: the fallback to the centre pixel taken by either rank.
ColorSampleFragFallbackAnyRank(cap, bwSize, bwData, cols, rows, e, u, f, rank, cx, cy) ==
    LET v == SampleCapture(cap, <<2 * cx + 1, 2 * cols>>, <<2 * cy + 1, 2 * rows>>)
        bk == TallyCell(cap, bwSize, bwData, cols, rows, e, u, f, rank, cx, cy, u * f)
        best == MostFrequent(bk, e)
        m == IF best.z = 0 THEN v ELSE best.m
    IN  RGBA(m.r, m.g, m.b, 255)

\* if (u_colorRank == 2 && z == 0.) m = v; gl_FragColor = vec4(m.xyz, 1)
ColorSampleFrag(cap, bwSize, bwData, cols, rows, e, u, f, rank, cx, cy) ==
    LET v == SampleCapture(cap, <<2 * cx + 1, 2 * cols>>, <<2 * cy + 1, 2 * rows>>)
        bk == TallyCell(cap, bwSize, bwData, cols, rows, e, u, f, rank, cx, cy, u * f)
        best == MostFrequent(bk, e)
        m == IF rank = 2 /\ best.z = 0 THEN v ELSE best.m
    IN  RGBA(m.r, m.g, m.b, 255)


----------------------------------------------------------------------------
(* The host's font manager: glyph atlas and character palette.             *)

\* The bitmap of glyph m, GlyphSize x GlyphSize texels: space, block, left
\* half, top half, uniform half-tone, diagonal.
GlyphTexel(m, lx, ly) ==
    LET shape == m % 6
    IN  CASE shape = 0 -> 0
          [] shape = 1 -> 255
          [] shape = 2 -> IF 2 * lx < GlyphSize THEN 255 ELSE 0
          [] shape = 3 -> IF 2 * ly < GlyphSize THEN 255 ELSE 0
          [] shape = 4 -> 128
          [] shape = 5 -> IF lx = ly THEN 255 ELSE 0

\* The atlas texture holds glyph m at column m % textureColumns and row
\* floor(m / textureColumns), each glyph GlyphSize texels wide and high.
AtlasTexel(fnt, tx, ty) ==
    LET m == (tx \div GlyphSize) + (ty \div GlyphSize) * fnt.textureColumns
    IN  Gray(GlyphTexel(m, tx % GlyphSize, ty % GlyphSize))

\* The palette texture: entry i of the palette is the colour that encodes the
\* atlas index of the i-th configured character.
PaletteTexel(fnt, i) ==
    LET m == fnt.palette[i]
    IN  RGBA(m % 256, (m \div 256) % 256, m \div 65536, 255)

----------------------------------------------------------------------------
(* Character Matcher: generateCharacterSelectionShader(fontSize)           *)

\* for u < N, for f < N: vec2 r = vec2(float(f)+.5, float(u)+.5) * k
GlyphSamples(N) == [k \in 1 .. N * N |-> <<(k - 1) % N, (k - 1) \div N>>]

\* texture2D(u_sketchTexture, e + r*v)
SketchSample(bwSize, bwData, cols, rows, N, cx, cy, fu) ==
    SampleFb(bwSize, bwData, SubSampleCoord(cx, fu[1], N, cols),
                             SubSampleCoord(cy, fu[2], N, rows))

\* Variant: the early return is missing, every cell is matched.
CellTransparentNever(bwSize, bwData, cols, rows, N, cx, cy) == FALSE

\* bool s: every sub-sample of the cell has alpha 0
CellTransparent(bwSize, bwData, cols, rows, N, cx, cy) ==
    \A k \in 1 .. N * N :
        ~(SketchSample(bwSize, bwData, cols, rows, N, cx, cy, GlyphSamples(N)[k]).a > 0)

\* texture2D(u_characterTexture, s + r*C).x for the glyph with atlas index m
GlyphSample(fnt, m, N, fu) ==
    LET y == m \div fnt.textureColumns
        x == m - fnt.textureColumns * y
        tx == TexelIndex(2 * N * x + 2 * fu[1] + 1, 2 * N * fnt.textureColumns,
                         fnt.textureColumns * GlyphSize)
        ty == TexelIndex(2 * N * y + 2 * fu[2] + 1, 2 * N * fnt.textureRows,
                         fnt.textureRows * GlyphSize)
    IN  AtlasTexel(fnt, tx, ty).r

\* y += m*m over the N*N sub-samples (the division by N*N is monotone and
\* is left out: errors are compared in units of 1/(255*255*N*N)).
RECURSIVE GlyphError(_, _, _, _, _, _, _, _, _, _)
GlyphError(fnt, m, bwSize, bwData, cols, rows, N, cx, cy, k) ==
    IF k = 0 THEN 0
    ELSE LET fu == GlyphSamples(N)[k]
             d == SketchSample(bwSize, bwData, cols, rows, N, cx, cy, fu).r
                    - GlyphSample(fnt, m, N, fu)
         IN  GlyphError(fnt, m, bwSize, bwData, cols, rows, N, cx, cy, k - 1) + d * d

\* float i = 1e20: larger than every error the loop can compute
InitialError(N) == N * N * 255 * 255 + 1

\* float m = r.x*255. + r.y*255.*256. + r.z*255.*65536.
DecodePalette(c) == c.r + c.g * 256 + c.b * 65536

\* Variant: a non-strict comparison, so that the last of equal errors wins.
MatchStepLastWins(acc, fnt, bwSize, bwData, cols, rows, N, cx, cy, u) ==
    LET m == DecodePalette(PaletteTexel(fnt, u + 1))
        y == GlyphError(fnt, m, bwSize, bwData, cols, rows, N, cx, cy, N * N)
    IN  IF y <= acc.i THEN [i |-> y, g |-> m, n |-> acc.n + 1]
        ELSE [acc EXCEPT !.n = @ + 1]

\* One iteration of the palette loop for entry u (0-based):
\* if (y < i) i = y, g = m
MatchStep(acc, fnt, bwSize, bwData, cols, rows, N, cx, cy, u) ==
    LET m == DecodePalette(PaletteTexel(fnt, u + 1))
        y == GlyphError(fnt, m, bwSize, bwData, cols, rows, N, cx, cy, N * N)
    IN  IF y < acc.i THEN [i |-> y, g |-> m, n |-> acc.n + 1]
        ELSE [acc EXCEPT !.n = @ + 1]

\* The iterations lo .. hi-1 of the palette loop, in order.
RECURSIVE MatchLoop(_, _, _, _, _, _, _, _, _, _, _)
MatchLoop(acc, fnt, bwSize, bwData, cols, rows, N, cx, cy, lo, hi) ==
    IF hi <= lo THEN acc
    ELSE IF hi = lo + 1
         THEN MatchStep(acc, fnt, bwSize, bwData, cols, rows, N, cx, cy, lo)
    ELSE LET mid == (lo + hi) \div 2
             first == MatchLoop(acc, fnt, bwSize, bwData, cols, rows, N, cx, cy, lo, mid)
         IN  IF first.n >= 0   \* the first half has run before the second starts
             THEN MatchLoop(first, fnt, bwSize, bwData, cols, rows, N, cx, cy, mid, hi)
             ELSE first

\* for (int u = 0; u < 1024; u++) { if (float(u) >= t) break; ... }
PaletteLoopEnd(fnt) == Min(MaxPaletteLoop, Len(fnt.palette))

\* An encoding of the low byte only.
CharacterSelectFragLowByte(fnt, bwSize, bwData, cols, rows, N, cx, cy) ==
    IF CellTransparent(bwSize, bwData, cols, rows, N, cx, cy)
    THEN [color |-> Zero4, tests |-> 0]
    ELSE LET acc == MatchLoop([i |-> InitialError(N), g |-> 0, n |-> 0], fnt,
                              bwSize, bwData, cols, rows, N, cx, cy, 0,
                              PaletteLoopEnd(fnt))
         IN  [color |-> RGBA(Min(255, acc.g % 256), 0, 0, 255), tests |-> acc.n]

\* The fragment of cell (cx, cy): its colour and the glyph comparisons made.
\* i = mod(g, 256.); g = floor(g / 256.); gl_FragColor = vec4(i/255., g/255., 0, 1)
CharacterSelectFrag(fnt, bwSize, bwData, cols, rows, N, cx, cy) ==
    IF CellTransparent(bwSize, bwData, cols, rows, N, cx, cy)
    THEN [color |-> Zero4, tests |-> 0]
    ELSE LET acc == MatchLoop([i |-> InitialError(N), g |-> 0, n |-> 0], fnt,
                              bwSize, bwData, cols, rows, N, cx, cy, 0,
                              PaletteLoopEnd(fnt))
         IN  [color |-> RGBA(Min(255, acc.g % 256), Min(255, acc.g \div 256), 0, 255),
              tests |-> acc.n]


----------------------------------------------------------------------------
(* Host collaborators: grid, font manager, option values                   *)

\* JavaScript values that `===` tells apart
JsNum(n) == [t |-> "number", n |-> n, s |-> ""]
JsStr(str) == [t |-> "string", n |-> 0, s |-> str]

\* p5 colour of a configured colour string
ColorOf(hex) ==
    CASE hex = "#FFFFFF" -> Gray(255)
      [] hex = "#000000" -> Gray(0)
      [] hex = "#FF0000" -> RGBA(255, 0, 0, 255)
      [] hex = "#0000FF" -> RGBA(0, 0, 255, 255)

\* Cell dimensions the host derives from the font: a face is "wide" (glyphs
\* as wide as high) or "narrow" (glyphs half as wide as high).
CellWidthOf(face) ==
    IF face.narrow THEN (face.fontSize + 1) \div 2 ELSE face.fontSize
CellHeightOf(face) == face.fontSize

\* The host grid for a canvas and a font face.
GridOf(w, h, face) ==
    [cols |-> w \div CellWidthOf(face), rows |-> h \div CellHeightOf(face),
     cellWidth |-> CellWidthOf(face), cellHeight |-> CellHeightOf(face)]

\* The atlas holds every glyph of the palette: that of a small font has 3 x 400
\* glyphs, that of a large one 256 x 256.
SmallAtlas(palette) == \A i \in 1 .. Len(palette) : palette[i] < 3 * 400

\* The host font manager for a font face and a palette of atlas indices.
FontOf(face, palette) ==
    [fontSize |-> face.fontSize, narrow |-> face.narrow,
     textureColumns |-> IF SmallAtlas(palette) THEN 3 ELSE 256,
     textureRows |-> IF SmallAtlas(palette) THEN 400 ELSE 256,
     palette |-> palette]

CanvasSizes == (1 .. MaxCanvas) \X (1 .. MaxCanvas)
FontSizes == 1 .. MaxFontSize
Face(fontSize, narrow) == [fontSize |-> fontSize, narrow |-> narrow]
\* A narrow face of size 1 has the cells of the wide one.
Faces == {Face(fs, FALSE) : fs \in FontSizes}
           \cup {Face(fs, TRUE) : fs \in FontSizes \ {1}}

\* A canvas holds at least one cell of the font.
Fits(wh, face) ==
    wh[1] >= CellWidthOf(face) /\ wh[2] >= CellHeightOf(face)

FbNames == {"brightnessSample", "brightnessSplit", "primaryColor",
            "secondaryColor", "transform", "rotation", "character"}

----------------------------------------------------------------------------
(* P5AsciifyAccurateRenderer                                                *)

\* The shader programs the constructor and resetShaders compile.
\* Variant: the matcher generated from the cell width, like a sampler.
GeneratedShadersMatcherByCell(fnt, g) ==
    [characterSelection |-> [N |-> g.cellWidth],
     brightnessSample   |-> [u |-> g.cellHeight, f |-> g.cellWidth],
     colorSample        |-> [e |-> ColorBuckets, u |-> g.cellHeight, f |-> g.cellWidth]]

\* createShader(vertexShader, generate...Shader(...)) in the constructor and
\* in resetShaders()
GeneratedShaders(fnt, g) ==
    [characterSelection |-> [N |-> fnt.fontSize],
     brightnessSample   |-> [u |-> g.cellHeight, f |-> g.cellWidth],
     colorSample        |-> [e |-> ColorBuckets, u |-> g.cellHeight, f |-> g.cellWidth]]

\* The dimensions the constructor and resizeFramebuffers give the buffers:
\* the two buffers of this class, and the five of the base class.
FramebufferSizes(g, cap) ==
    [n \in FbNames |->
        IF n = "brightnessSplit" THEN <<cap.width, cap.height>>
        ELSE <<g.cols, g.rows>>]

\* A freshly allocated or resized framebuffer is empty.
EmptyData(sizes) == [n \in FbNames |-> [p \in Fragments(sizes[n]) |-> Zero4]]

Cmd(op, arg) == [op |-> op, arg |-> arg]

\* this._p.background(c) / this._p.clear() over the bound framebuffer
Fill(size, c) == [p \in Fragments(size) |-> c]

BrightnessSamplePass(cap, g, sh, size) ==
    [p \in Fragments(size) |->
        BrightnessSampleFrag(cap, g.cols, g.rows, sh.brightnessSample.u,
                             sh.brightnessSample.f, p[1], p[2])]

BrightnessSplitPass(cap, g, density, bsSize, bsData, size) ==
    [p \in Fragments(size) |->
        BrightnessSplitFrag(cap, bsSize, bsData, g.cols, g.rows, density, p[1], p[2])]

ColorSamplePass(cap, g, sh, bwSize, bwData, rank, size) ==
    [p \in Fragments(size) |->
        ColorSampleFrag(cap, bwSize, bwData, g.cols, g.rows, sh.colorSample.e,
                        sh.colorSample.u, sh.colorSample.f, rank, p[1], p[2])]

\* Variant: a test of truthiness, if (this._options.characterColorMode)
IsFixedModeTruthy(mode) == mode # JsNum(0)

\* A comparison with the mode's name instead.
IsFixedModeByName(mode) == mode = JsStr("fixed")

\* if (this._options.characterColorMode === 1)
IsFixedMode(mode) == mode = JsNum(1)

ColorPass(mode, color, cap, g, sh, bwSize, bwData, rank, size) ==
    IF IsFixedMode(mode) THEN Fill(size, ColorOf(color))
    ELSE ColorSamplePass(cap, g, sh, bwSize, bwData, rank, size)

\* A sampled pass that draws over the buffer's previous contents.
ColorPassLogNoClear(mode, color, target) ==
    <<Cmd("begin", target)>>
    \o (IF IsFixedMode(mode) THEN <<Cmd("background", color)>>
        ELSE <<Cmd("shader", "colorSample"),
               Cmd("texture", "capture"), Cmd("texture", "brightnessSplit"),
               Cmd("rect", target)>>)
    \o <<Cmd("end", target)>>

\* Variant: a sampled pass that reads the buffer it is drawing into.
ColorPassLogReadsTarget(mode, color, target) ==
    <<Cmd("begin", target)>>
    \o (IF IsFixedMode(mode) THEN <<Cmd("background", color)>>
        ELSE <<Cmd("clear", target), Cmd("shader", "colorSample"),
               Cmd("texture", "capture"), Cmd("texture", target),
               Cmd("rect", target)>>)
    \o <<Cmd("end", target)>>

ColorPassLog(mode, color, target) ==
    <<Cmd("begin", target)>>
    \o (IF IsFixedMode(mode) THEN <<Cmd("background", color)>>
        ELSE <<Cmd("clear", target), Cmd("shader", "colorSample"),
               Cmd("texture", "capture"), Cmd("texture", "brightnessSplit"),
               Cmd("rect", target)>>)
    \o <<Cmd("end", target)>>

TransformColor(o) ==
    RGBA(IF o.invertMode THEN 255 ELSE 0, IF o.flipHorizontally THEN 255 ELSE 0,
         IF o.flipVertically THEN 255 ELSE 0, 255)

RotationColor(o) == Gray(Min(255, o.rotationAngle))

CharacterPass(fnt, g, sh, bwSize, bwData, size) ==
    [p \in Fragments(size) |->
        CharacterSelectFrag(fnt, bwSize, bwData, g.cols, g.rows,
                            sh.characterSelection.N, p[1], p[2])]

\* Variant: a render() that returns with the character buffer still bound.
RenderLogWithoutLastEnd(o) ==
    <<Cmd("begin", "brightnessSample"), Cmd("clear", "brightnessSample"),
      Cmd("shader", "brightnessSample"), Cmd("texture", "capture"),
      Cmd("rect", "brightnessSample"), Cmd("end", "brightnessSample"),
      Cmd("begin", "brightnessSplit"), Cmd("clear", "brightnessSplit"),
      Cmd("shader", "brightnessSplit"), Cmd("texture", "capture"),
      Cmd("texture", "brightnessSample"),
      Cmd("rect", "brightnessSplit"), Cmd("end", "brightnessSplit")>>
    \o ColorPassLog(o.characterColorMode, o.characterColor, "primaryColor")
    \o ColorPassLog(o.backgroundColorMode, o.backgroundColor, "secondaryColor")
    \o <<Cmd("begin", "transform"), Cmd("background", "transform"),
         Cmd("end", "transform"),
         Cmd("begin", "rotation"), Cmd("background", "rotation"),
         Cmd("end", "rotation"),
         Cmd("begin", "character"), Cmd("clear", "character"),
         Cmd("shader", "characterSelection"), Cmd("texture", "atlas"),
         Cmd("texture", "palette"), Cmd("texture", "brightnessSplit"),
         Cmd("rect", "character")>>

\* The commands render() issues, in program order.
RenderLog(o) ==
    <<Cmd("begin", "brightnessSample"), Cmd("clear", "brightnessSample"),
      Cmd("shader", "brightnessSample"), Cmd("texture", "capture"),
      Cmd("rect", "brightnessSample"), Cmd("end", "brightnessSample"),
      Cmd("begin", "brightnessSplit"), Cmd("clear", "brightnessSplit"),
      Cmd("shader", "brightnessSplit"), Cmd("texture", "capture"),
      Cmd("texture", "brightnessSample"),
      Cmd("rect", "brightnessSplit"), Cmd("end", "brightnessSplit")>>
    \o ColorPassLog(o.characterColorMode, o.characterColor, "primaryColor")
    \o ColorPassLog(o.backgroundColorMode, o.backgroundColor, "secondaryColor")
    \o <<Cmd("begin", "transform"), Cmd("background", "transform"),
         Cmd("end", "transform"),
         Cmd("begin", "rotation"), Cmd("background", "rotation"),
         Cmd("end", "rotation"),
         Cmd("begin", "character"), Cmd("clear", "character"),
         Cmd("shader", "characterSelection"), Cmd("texture", "atlas"),
         Cmd("texture", "palette"), Cmd("texture", "brightnessSplit"),
         Cmd("rect", "character"), Cmd("end", "character")>>

\* The contents of the seven buffers after render(), and the glyph
\* comparisons of the character pass.
RenderData(cap, g, fnt, density, o, sh, sizes) ==
    LET bs == BrightnessSamplePass(cap, g, sh, sizes["brightnessSample"])
        bw == BrightnessSplitPass(cap, g, density, sizes["brightnessSample"], bs,
                                  sizes["brightnessSplit"])
        bwSize == sizes["brightnessSplit"]
        ch == CharacterPass(fnt, g, sh, bwSize, bw, sizes["character"])
    IN  [data |->
           [n \in FbNames |->
              CASE n = "brightnessSample" -> bs
                [] n = "brightnessSplit"  -> bw
                [] n = "primaryColor"     ->
                     ColorPass(o.characterColorMode, o.characterColor, cap, g, sh,
                               bwSize, bw, 1, sizes[n])
                [] n = "secondaryColor"   ->
                     ColorPass(o.backgroundColorMode, o.backgroundColor, cap, g, sh,
                               bwSize, bw, 2, sizes[n])
                [] n = "transform"        -> Fill(sizes[n], TransformColor(o))
                [] n = "rotation"         -> Fill(sizes[n], RotationColor(o))
                [] n = "character"        ->
                     [p \in Fragments(sizes[n]) |-> ch[p].color]],
         tests |-> [p \in Fragments(sizes["character"]) |-> ch[p].tests]]


----------------------------------------------------------------------------
(* Load time: getBaseClass / getCachedBaseClass                             *)

BaseClassName == "P5AsciifyAbstractFeatureRenderer2D"

\* The characters of the global names the model uses.
Chars(name) ==
    CASE name = "p5"        -> <<"p", "5">>
      [] name = "P5Vec"     -> <<"P", "5", "V", "e", "c">>
      [] name = "ASCIIFY"   -> <<"A", "S", "C", "I", "I", "F", "Y">>
      [] name = "asciifier" -> <<"a", "s", "c", "i", "i", "f", "i", "e", "r">>
      [] name = "document"  -> <<"d", "o", "c", "u", "m", "e", "n", "t">>
      [] name = "ascii"     -> <<"a", "s", "c", "i", "i">>
      [] name = BaseClassName ->
           <<"P", "5", "A", "s", "c", "i", "i", "f", "y", "A", "b", "s", "t", "r",
             "a", "c", "t", "F", "e", "a", "t", "u", "r", "e", "R", "e", "n", "d",
             "e", "r", "e", "r", "2", "D">>

OtherGlobalNames == {"p5", "P5Vec", "ASCIIFY", "asciifier", "document", "ascii"}

LowerChar(c) ==
    CASE c = "A" -> "a" [] c = "C" -> "c" [] c = "D" -> "d" [] c = "F" -> "f"
      [] c = "I" -> "i" [] c = "P" -> "p" [] c = "R" -> "r" [] c = "S" -> "s"
      [] c = "V" -> "v" [] c = "Y" -> "y" [] OTHER -> c

\* key.toLowerCase()
ToLowerCase(cs) == [i \in 1 .. Len(cs) |-> LowerChar(cs[i])]

\* str.includes(sub)
Includes(cs, sub) ==
    \E i \in 0 .. Len(cs) - Len(sub) :
        \A j \in 1 .. Len(sub) : cs[i + j] = sub[j]

\* key.toLowerCase().includes('asciify') || key.toLowerCase().includes('p5')
IsRelatedGlobal(name) ==
    \/ Includes(ToLowerCase(Chars(name)), <<"a", "s", "c", "i", "i", "f", "y">>)
    \/ Includes(ToLowerCase(Chars(name)), <<"p", "5">>)

\* The imported host module exposes the base class (strategy 1).
ModuleHasBaseClass(e) == e.module = "class"

\* window.P5AsciifyAbstractFeatureRenderer2D && typeof ... === 'function'
WindowHasBaseClass(e) ==
    /\ e.hasWindow
    /\ \E i \in 1 .. Len(e.keys) : e.keys[i] = BaseClassName
    /\ e.globalType = "function"

\* Object.keys(window).filter(...), or [] without a window
AvailableGlobals(e) ==
    IF e.hasWindow THEN SelectSeq(e.keys, IsRelatedGlobal) ELSE <<>>

NotFoundError(e) ==
    [name |-> "Error", missing |-> BaseClassName,
     hint |-> IF Len(AvailableGlobals(e)) > 0 THEN "Found related globals: "
              ELSE "No related globals found.",
     globals |-> AvailableGlobals(e)]

\* In the UMD bundle the host module is the factory argument e = r.p5asciify
\* and strategy 1 reads e.renderers: with no such global the read throws.
TypeErrorOnRead ==
    [name |-> "TypeError", missing |-> "renderers", hint |-> "", globals |-> <<>>]

NoError == [name |-> "", missing |-> "", hint |-> "", globals |-> <<>>]

\* getBaseClass(): the class it returns, or the error it throws.
GetBaseClass(e) ==
    IF e.build = "umd" /\ e.module = "undefined"
    THEN [ok |-> FALSE, class |-> "null", error |-> TypeErrorOnRead]
    ELSE IF ModuleHasBaseClass(e)
    THEN [ok |-> TRUE, class |-> "module", error |-> NoError]
    ELSE IF WindowHasBaseClass(e)
    THEN [ok |-> TRUE, class |-> "window", error |-> NoError]
    ELSE [ok |-> FALSE, class |-> "null", error |-> NotFoundError(e)]


----------------------------------------------------------------------------
(* State machine                                                            *)

rendererVars == <<capture, grid, font, pixelDensity, options, optionsRef, shaders, fbSize,
                  fbData, log, glyphTests, hostSync, lastOp, prevOp>>

\* The characters " .:-=+*%@#", each by its glyph index in the font's atlas
\* (its character code less that of the space).
DefaultCharacters == <<0, 14, 26, 13, 29, 11, 10, 5, 32, 3>>

ACCURATE_DEFAULT_OPTIONS ==
    [enabled |-> TRUE,
     characters |-> DefaultCharacters,
     characterColor |-> "#FFFFFF", characterColorMode |-> JsStr("sampled"),
     backgroundColor |-> "#000000", backgroundColorMode |-> JsStr("sampled"),
     invertMode |-> FALSE, rotationAngle |-> 0,
     flipHorizontally |-> FALSE, flipVertically |-> FALSE]

\* The optional argument `options` of create(): an object, or undefined.
Given(obj) == [given |-> TRUE, obj |-> obj]
NotGiven == [given |-> FALSE, obj |-> <<>>]

\* create(): options || ACCURATE_DEFAULT_OPTIONS
CreateOptions(defaults, arg) == IF arg.given THEN arg.obj ELSE defaults

\* A merge in which the defaults win: { ...options, ...ACCURATE_DEFAULT_OPTIONS }
MergedOptionsDefaultsLast(defaults, o) ==
    [k \in DOMAIN defaults \cup DOMAIN o |->
        IF k \in DOMAIN defaults THEN defaults[k] ELSE o[k]]

\* { ...ACCURATE_DEFAULT_OPTIONS, ...options }
MergedOptions(defaults, o) ==
    [k \in DOMAIN defaults \cup DOMAIN o |->
        IF k \in DOMAIN o THEN o[k] ELSE defaults[k]]

\* A constructor that merges into the module's object:
\* Object.assign(ACCURATE_DEFAULT_OPTIONS, options)
HandedOptionsAssigned(defaults, arg) ==
    [ref |-> "defaults", value |-> MergedOptions(defaults, CreateOptions(defaults, arg))]

\* The object the constructor hands to the base class: a new object.
HandedOptions(defaults, arg) ==
    [ref |-> "merged", value |-> MergedOptions(defaults, CreateOptions(defaults, arg))]

\* A caller's object that names the characters and the two colour modes.
ModeOptions(palette, cm, bm) ==
    Given([characters |-> palette, characterColorMode |-> JsStr(cm),
           backgroundColorMode |-> JsStr(bm)])

\* AccurateRendererPlugin.create(p, captureFramebuffer, grid, fontManager, arg)
\* and the constructor it calls.  The base class keeps the object handed to it
\* and takes the palette from its characters.
Construct(wh, face, scene, density, arg) ==
    LET cap == [width |-> wh[1], height |-> wh[2], scene |-> scene]
        g == GridOf(wh[1], wh[2], face)
        handed == HandedOptions(defaultOptions, arg)
        o == handed.value
        fnt == FontOf(face, o.characters)
    IN  /\ capture = cap
        /\ optionsRef = handed.ref
        /\ grid = g
        /\ font = fnt
        /\ pixelDensity = density
        /\ options = o
        /\ shaders = GeneratedShaders(fnt, g)
        /\ fbSize = FramebufferSizes(g, cap)
        /\ fbData = EmptyData(FramebufferSizes(g, cap))
        /\ log = <<>>
        /\ glyphTests = [p \in Fragments(<<g.cols, g.rows>>) |-> 0]
        /\ hostSync = [fb |-> TRUE, sh |-> TRUE,
                       characterColorMode |-> o.characterColorMode.s,
                       backgroundColorMode |-> o.backgroundColorMode.s,
                       switchedToFixed |-> {},
                       createArg |-> arg]
        /\ lastOp = "constructor"
        /\ prevOp = "none"

\* The module loaded and the class is defined.
Loaded ==
    /\ env = [build |-> "esm", module |-> "class", hasWindow |-> FALSE,
              keys |-> <<>>, globalType |-> "undefined"]
    /\ cachedBaseClass = "module"
    /\ loadState = "loaded"
    /\ loadError = NoError
    /\ defaultOptions = ACCURATE_DEFAULT_OPTIONS

ColorModes == {"sampled", "fixed"}
CharacterColors == {"#FF0000"}
BackgroundColors == {"#0000FF"}
LifecycleCanvases == {<<w, w>> : w \in 1 .. MaxCanvas}

\* No host handler is between a change and the hooks that follow it.
HostIdle == hostSync.fb /\ hostSync.sh
LifecycleScenes == {"gray", "edge"}
LifecyclePalette == <<1, 2, 0>>
\* Narrow faces: the grids of a square canvas have more columns than rows.
LifecycleFaces == {Face(fs, TRUE) : fs \in FontSizes}

Init ==
    /\ Loaded
    /\ \E wh \in LifecycleCanvases, face \in LifecycleFaces,
          cm \in ColorModes, bm \in ColorModes :
          /\ Fits(wh, face)
          /\ Construct(wh, face, "clear", 1, ModeOptions(LifecyclePalette, cm, bm))

\* The host's update(): it stores the colour modes as 0 (sampled) / 1 (fixed),
\* writing into the object that this._options refers to.
Update(cm, bm, cc, bc) ==
    /\ HostIdle
    /\ options' = [options EXCEPT
                     !.characterColorMode = JsNum(IF cm = "fixed" THEN 1 ELSE 0),
                     !.backgroundColorMode = JsNum(IF bm = "fixed" THEN 1 ELSE 0),
                     !.characterColor = cc,
                     !.backgroundColor = bc]
    /\ hostSync' = [hostSync EXCEPT
                      !.characterColorMode = cm,
                      !.backgroundColorMode = bm,
                      !.createArg = NotGiven,
                      !.switchedToFixed =
                          {m \in {"characterColorMode"} :
                              hostSync.characterColorMode = "sampled" /\ cm = "fixed"}
                          \cup
                          {m \in {"backgroundColorMode"} :
                              hostSync.backgroundColorMode = "sampled" /\ bm = "fixed"}]
    /\ lastOp' = "update"
    /\ prevOp' = lastOp
    /\ defaultOptions' = IF optionsRef = "defaults" THEN options' ELSE defaultOptions
    /\ UNCHANGED <<capture, grid, font, pixelDensity, optionsRef, shaders, fbSize,
                   fbData, log, glyphTests>>
    /\ UNCHANGED loadVars

\* The host resizes the canvas: capture framebuffer and grid change.
HostResize(wh) ==
    /\ HostIdle
    /\ Fits(wh, font)
    /\ wh # <<capture.width, capture.height>>
    /\ capture' = [capture EXCEPT !.width = wh[1], !.height = wh[2]]
    /\ grid' = GridOf(wh[1], wh[2], font)
    /\ hostSync' = [hostSync EXCEPT !.fb = FALSE]
    /\ lastOp' = "hostResize"
    /\ prevOp' = lastOp
    /\ UNCHANGED <<font, pixelDensity, options, optionsRef, shaders, fbSize, fbData, log,
                   glyphTests>>
    /\ UNCHANGED <<loadVars, defaultOptions>>

\* The host changes the font size: font manager and grid change.
HostSetFontSize(fs) ==
    /\ HostIdle
    /\ Fits(<<capture.width, capture.height>>, [font EXCEPT !.fontSize = fs])
    /\ fs # font.fontSize
    /\ font' = [font EXCEPT !.fontSize = fs]
    /\ grid' = GridOf(capture.width, capture.height, font')
    /\ hostSync' = [hostSync EXCEPT !.fb = FALSE, !.sh = FALSE]
    /\ lastOp' = "hostSetFontSize"
    /\ prevOp' = lastOp
    /\ UNCHANGED <<capture, pixelDensity, options, optionsRef, shaders, fbSize, fbData, log,
                   glyphTests>>
    /\ UNCHANGED <<loadVars, defaultOptions>>

\* A resize that gives every buffer the grid's dimensions.
ResizedSizesAllToGrid(g, cap) == [n \in FbNames |-> <<g.cols, g.rows>>]

\* resizeFramebuffers(): super.resizeFramebuffers() and the two own buffers.
ResizedSizes(g, cap) == FramebufferSizes(g, cap)

ResizeFramebuffers ==
    /\ fbSize' = ResizedSizes(grid, capture)
    /\ fbData' = EmptyData(fbSize')
    /\ glyphTests' = [p \in Fragments(fbSize'["character"]) |-> 0]
    /\ hostSync' = [hostSync EXCEPT !.fb = TRUE]
    /\ lastOp' = "resizeFramebuffers"
    /\ prevOp' = lastOp
    /\ UNCHANGED <<capture, grid, font, pixelDensity, options, optionsRef, shaders, log>>
    /\ UNCHANGED <<loadVars, defaultOptions>>

\* Variant: a reset that recompiles the two samplers and keeps the matcher.
ResetShadersKeepsMatcher ==
    /\ shaders' = [GeneratedShaders(font, grid) EXCEPT
                      !.characterSelection = shaders.characterSelection]
    /\ hostSync' = [hostSync EXCEPT !.sh = TRUE]
    /\ lastOp' = "resetShaders"
    /\ prevOp' = lastOp
    /\ UNCHANGED <<capture, grid, font, pixelDensity, options, optionsRef, fbSize, fbData, log,
                   glyphTests>>
    /\ UNCHANGED <<loadVars, defaultOptions>>

\* resetShaders()
ResetShaders ==
    /\ shaders' = GeneratedShaders(font, grid)
    /\ hostSync' = [hostSync EXCEPT !.sh = TRUE]
    /\ lastOp' = "resetShaders"
    /\ prevOp' = lastOp
    /\ UNCHANGED <<capture, grid, font, pixelDensity, options, optionsRef, fbSize, fbData, log,
                   glyphTests>>
    /\ UNCHANGED <<loadVars, defaultOptions>>

\* Variant: a character pass that draws without clearing, so that a cell for
\* which the matcher emits the all-zero sentinel keeps what it held.
RenderWithoutCharacterClear(scene) ==
    /\ HostIdle
    /\ capture' = [capture EXCEPT !.scene = scene]
    /\ LET r == RenderData(capture', grid, font, pixelDensity, options, shaders, fbSize)
       IN  /\ fbData' = [r.data EXCEPT !["character"] =
                            [p \in DOMAIN r.data["character"] |->
                                IF r.data["character"][p] = Zero4
                                THEN fbData["character"][p]
                                ELSE r.data["character"][p]]]
           /\ glyphTests' = r.tests
    /\ log' = RenderLog(options)
    /\ lastOp' = "render"
    /\ prevOp' = lastOp
    /\ UNCHANGED <<grid, font, pixelDensity, options, optionsRef, shaders, fbSize, hostSync>>
    /\ UNCHANGED <<loadVars, defaultOptions>>

\* render(), on the frame the host has just captured.  The host calls it,
\* like update() and its own handlers, only after the hooks that follow a
\* resize or a font change have run.
Render(scene) ==
    /\ HostIdle
    /\ capture' = [capture EXCEPT !.scene = scene]
    /\ LET r == RenderData(capture', grid, font, pixelDensity, options, shaders, fbSize)
       IN  /\ fbData' = r.data
           /\ glyphTests' = r.tests
    /\ log' = RenderLog(options)
    /\ lastOp' = "render"
    /\ prevOp' = lastOp
    /\ UNCHANGED <<grid, font, pixelDensity, options, optionsRef, shaders, fbSize, hostSync>>
    /\ UNCHANGED <<loadVars, defaultOptions>>

Next ==
    \/ \E cm \in ColorModes, bm \in ColorModes, cc \in CharacterColors,
          bc \in BackgroundColors : Update(cm, bm, cc, bc)
    \/ \E wh \in LifecycleCanvases : HostResize(wh)
    \/ \E fs \in FontSizes : HostSetFontSize(fs)
    \/ ResizeFramebuffers
    \/ ResetShaders
    \/ \E sc \in LifecycleScenes : Render(sc)

Spec == Init /\ [][Next]_vars


----------------------------------------------------------------------------
(* The shader pipeline on a wider range of frames: one render() per input   *)

SampledOptions(palette) == ModeOptions(palette, "sampled", "sampled")

PaletteGlyphs == {0, 1, 2, 4, 260}
Palettes == UNION {[1 .. n -> PaletteGlyphs] : n \in 1 .. MaxPaletteLen}

\* A palette of n entries: spaces up to the loop bound, blocks after it.
LongPalette(n) == [i \in 1 .. n |-> IF i <= MaxPaletteLoop THEN 0 ELSE 1]

\* Every geometry, scene and pixel density, with one palette.
GeometrySweep ==
    {<<wh, face, <<0, 1, 2>>, sc, d>> :
        wh \in CanvasSizes, face \in Faces, sc \in Scenes,
        d \in 1 .. MaxPixelDensity}

\* Every palette, on one grid of two-by-two-pixel cells.
PaletteSweep ==
    {<<wh, Face(2, FALSE), pal, sc, 1>> :
        wh \in {<<2, 2>>}, pal \in Palettes,
        sc \in {"gray", "stripes", "edge", "subtle"}}

\* Palettes at and beyond the bound of the matcher's loop.
LongPalettes ==
    {<<wh, Face(1, FALSE), LongPalette(n), sc, 1>> :
        wh \in {<<1, 1>>}, n \in {MaxPaletteLoop, MaxPaletteLoop + 1},
        sc \in {"gray"}}

\* A cell with more distinct colours than the sampler has buckets.
BucketOverflow ==
    {<<wh, Face(5, FALSE), <<0, 1>>, sc, 1>> : wh \in {<<5, 5>>}, sc \in {"pastel"}}

\* Grids of a single cell, with a palette of a space and a full block.
SingleCell ==
    {in \in {<<wh, face, <<0, 1>>, sc, d>> :
                wh \in CanvasSizes, face \in Faces, sc \in {"gray"},
                d \in 1 .. MaxPixelDensity} :
        /\ in[1][1] \div CellWidthOf(in[2]) = 1
        /\ in[1][2] \div CellHeightOf(in[2]) = 1}

\* Glyph indices whose low or high byte is 0, 1 or 255.
IndexLimit == 256 * 256
IndexSamples ==
    {m \in 0 .. IndexLimit - 1 : m % 256 \in {0, 1, 255} \/ m \div 256 \in {0, 1, 255}}

\* One opaque cell and a palette of one glyph, for each of these indices.
IndexSweep ==
    {<<wh, Face(1, FALSE), <<m>>, sc, 1>> :
        wh \in {<<1, 1>>}, m \in IndexSamples, sc \in {"gray"}}

\* Two cells of two by two pixels side by side.
TwoCells ==
    {<<wh, Face(2, FALSE), <<0, 1>>, sc, 1>> :
        wh \in {<<4, 2>>}, sc \in {"subtle", "stripes", "edge"}}

ShadeInputs ==
    GeometrySweep \cup PaletteSweep \cup LongPalettes \cup BucketOverflow
    \cup SingleCell \cup IndexSweep \cup TwoCells

InitShade ==
    /\ Loaded
    /\ \E in \in ShadeInputs :
          /\ Fits(in[1], in[2])
          /\ Construct(in[1], in[2], in[4], in[5], SampledOptions(in[3]))

RenderFrame == Render(capture.scene)

SpecShade == InitShade /\ [][RenderFrame]_vars

----------------------------------------------------------------------------
(* Creating the renderer with every choice of option keys                   *)

\* A value other than the default's, for each option key.
OtherValue(k) ==
    CASE k = "enabled"             -> FALSE
      [] k = "characters"          -> <<0, 1>>
      [] k = "characterColor"      -> "#FF0000"
      [] k = "characterColorMode"  -> JsStr("fixed")
      [] k = "backgroundColor"     -> "#0000FF"
      [] k = "backgroundColorMode" -> JsStr("fixed")
      [] k = "invertMode"          -> TRUE
      [] k = "rotationAngle"       -> 90
      [] k = "flipHorizontally"    -> TRUE
      [] k = "flipVertically"      -> TRUE

OptionKeys == DOMAIN ACCURATE_DEFAULT_OPTIONS

\* create() without options, and with an object holding any set of the keys.
CreateArgs ==
    {NotGiven} \cup {Given([k \in K |-> OtherValue(k)]) : K \in SUBSET OptionKeys}

InitCreate ==
    /\ Loaded
    /\ \E arg \in CreateArgs : Construct(<<1, 1>>, Face(1, FALSE), "gray", 1, arg)

UpdateOptions ==
    \E cm \in ColorModes, bm \in ColorModes, cc \in CharacterColors,
       bc \in BackgroundColors : Update(cm, bm, cc, bc)

SpecCreate == InitCreate /\ [][UpdateOptions]_vars

----------------------------------------------------------------------------
(* Loading the module                                                       *)

\* Sequences of n distinct names
RECURSIVE DistinctSeqs(_, _)
DistinctSeqs(names, n) ==
    IF n = 0 THEN {<<>>}
    ELSE {Append(q, x) : q \in DistinctSeqs(names, n - 1), x \in names}
           \ {q \in [1 .. n -> names] : \E i, j \in 1 .. n : i < j /\ q[i] = q[j]}

WindowKeys == UNION {DistinctSeqs(OtherGlobalNames, n) : n \in 0 .. MaxGlobals}

\* What the plugin gets as the host module: its exports down to the base
\* class, or as much of them as a host version has.  The UMD bundle takes the
\* global p5asciify, which is undefined where the host was not loaded.
HostModules(b) ==
    {"no_renderers", "no_renderer2d", "no_feature", "no_class", "class"}
    \cup (IF b = "umd" THEN {"undefined"} ELSE {})

EnvironmentsOf(b) ==
    {[build |-> b, module |-> m, hasWindow |-> TRUE, keys |-> k,
      globalType |-> "undefined"] :
        m \in HostModules(b), k \in WindowKeys}
    \cup
    {[build |-> b, module |-> m, hasWindow |-> TRUE,
      keys |-> Append(k, BaseClassName), globalType |-> t] :
        m \in HostModules(b), k \in WindowKeys, t \in {"function", "object"}}
    \cup
    {[build |-> b, module |-> m, hasWindow |-> FALSE, keys |-> <<>>,
      globalType |-> "undefined"] :
        m \in HostModules(b)}

Environments == EnvironmentsOf("esm") \cup EnvironmentsOf("umd")

\* No renderer exists before the class is defined.
NoRenderer ==
    /\ Construct(<<1, 1>>, Face(1, FALSE), "clear", 1, SampledOptions(<<0>>))

InitLoad ==
    /\ env \in Environments
    /\ cachedBaseClass = "null"
    /\ loadState = "unloaded"
    /\ loadError = NoError
    /\ defaultOptions = ACCURATE_DEFAULT_OPTIONS
    /\ NoRenderer

\* getCachedBaseClass(): if (cachedBaseClass === null) cachedBaseClass = getBaseClass()
GetCachedBaseClass(cached, e) ==
    IF cached = "null" THEN GetBaseClass(e)
    ELSE [ok |-> TRUE, class |-> cached, error |-> NoError]

\* Evaluating `class P5AsciifyAccurateRenderer extends getCachedBaseClass()`
LoadModule ==
    /\ loadState = "unloaded"
    /\ LET r == GetCachedBaseClass(cachedBaseClass, env)
       IN  /\ cachedBaseClass' = r.class
           /\ loadState' = IF r.ok THEN "loaded" ELSE "failed"
           /\ loadError' = r.error
    /\ UNCHANGED <<env, defaultOptions>>
    /\ UNCHANGED rendererVars

SpecLoad == InitLoad /\ [][LoadModule]_vars


----------------------------------------------------------------------------
(* Properties of the shader pipeline (under SpecShade)                      *)

Rendered == lastOp = "render"

Cells == Fragments(fbSize["character"])

\* The k-th sub-sample of the binary mask that the matcher reads for cell p.
MaskSample(p, k) ==
    SketchSample(fbSize["brightnessSplit"], fbData["brightnessSplit"], grid.cols,
                 grid.rows, shaders.characterSelection.N, p[1], p[2],
                 GlyphSamples(shaders.characterSelection.N)[k])

MaskSampleCount == shaders.characterSelection.N * shaders.characterSelection.N

CellFullyTransparent(p) == \A k \in 1 .. MaskSampleCount : MaskSample(p, k).a = 0

\* The sum of squared differences of glyph m against the mask of cell p.
CellError(p, m) ==
    GlyphError(font, m, fbSize["brightnessSplit"], fbData["brightnessSplit"],
               grid.cols, grid.rows, shaders.characterSelection.N, p[1], p[2],
               MaskSampleCount)

\* The glyph index that the character buffer holds for cell p.
EmittedIndex(p) == fbData["character"][p].r + 256 * fbData["character"][p].g

\* The earliest of the first n palette entries whose error is minimal among them.
BestEntry(p, n) ==
    LET errs == [i \in 1 .. n |-> CellError(p, font.palette[i])]
    IN  CHOOSE i \in 1 .. n :
            \A j \in 1 .. n : errs[i] < errs[j] \/ (errs[i] = errs[j] /\ i <= j)

\* C1 (as stated): for every cell that is not fully transparent and every
\* non-empty palette, the emitted glyph is the earliest of the entries whose
\* SSD is minimal over all palette entries.
C1_MinimalOverAllEntries ==
    Rendered =>
        \A p \in Cells :
            (~CellFullyTransparent(p) /\ Len(font.palette) > 0)
                => EmittedIndex(p) = font.palette[BestEntry(p, Len(font.palette))]

\* C1 (amended): for every cell that is not fully transparent and every
\* non-empty palette, the emitted glyph is the earliest of the entries whose
\* SSD is minimal over the first 1024 palette entries.
C1_MinimalOverLoopedEntries ==
    Rendered =>
        \A p \in Cells :
            (~CellFullyTransparent(p) /\ Len(font.palette) > 0)
                => EmittedIndex(p) =
                     font.palette[BestEntry(p, Min(Len(font.palette), MaxPaletteLoop))]

\* A rendered cell where two different glyphs tie for the minimal error and
\* the earlier one was emitted.
C1_Witness ==
    /\ Rendered
    /\ Len(font.palette) \in 2 .. MaxPaletteLen
    /\ \E p \in Cells :
          /\ ~CellFullyTransparent(p)
          /\ LET i == BestEntry(p, Len(font.palette))
             IN  /\ EmittedIndex(p) = font.palette[i]
                 /\ \E j \in i + 1 .. Len(font.palette) :
                       /\ font.palette[i] # font.palette[j]
                       /\ CellError(p, font.palette[i]) = CellError(p, font.palette[j])

\* C2: for every cell whose mask sub-samples all have zero alpha, the output
\* is the all-zero sentinel and no glyph was compared.
C2_TransparentCellSentinel ==
    Rendered =>
        \A p \in Cells :
            CellFullyTransparent(p)
                => fbData["character"][p] = Zero4 /\ glyphTests[p] = 0

\* A rendered frame with a fully transparent cell next to one that is not.
C2_Witness ==
    /\ Rendered
    /\ Len(font.palette) > 0
    /\ \E p, q \in Cells :
          /\ CellFullyTransparent(p) /\ fbData["character"][p] = Zero4
          /\ ~CellFullyTransparent(q) /\ glyphTests[q] > 0

\* The source pixel that the splitter reads for fragment q of the mask.
SourceOf(q) ==
    <<Min(q[1] \div pixelDensity, capture.width - 1),
      Min(q[2] \div pixelDensity, capture.height - 1)>>

SourcePixel(q) == CapturePixel(capture, SourceOf(q)[1], SourceOf(q)[2])

\* The average brightness stored for the cell of the source pixel of q.
CellAverageOf(q) ==
    fbData["brightnessSample"][<<(SourceOf(q)[1] * grid.cols) \div capture.width,
                                 (SourceOf(q)[2] * grid.rows) \div capture.height>>].r

\* alpha >= 0.01
OpaqueSource(q) == SourcePixel(q).a * 100 >= 255

MaskFragments == Fragments(fbSize["brightnessSplit"])

\* C3: every mask fragment is (0,0,0,0) if its source pixel's alpha is below
\* 0.01, and otherwise opaque with all three channels 0.0 or all three 1.0.
C3_SplitOutputBinary ==
    Rendered =>
        \A q \in MaskFragments :
            LET out == fbData["brightnessSplit"][q]
            IN  IF ~OpaqueSource(q) THEN out = Zero4
                ELSE out \in {RGBA(0, 0, 0, 255), RGBA(255, 255, 255, 255)}

\* A rendered mask holding a transparent fragment whose source has a non-zero
\* alpha below 0.01, a 0.0 fragment and a 1.0 fragment.
C3_Witness ==
    /\ Rendered
    /\ \E q \in MaskFragments :
          SourcePixel(q).a > 0 /\ ~OpaqueSource(q) /\ fbData["brightnessSplit"][q] = Zero4
    /\ \E q \in MaskFragments : fbData["brightnessSplit"][q] = Gray(255)

\* C4 (as stated): for every opaque source pixel the output is 1.0 iff the
\* pixel's luminance is at least its cell's stored average brightness.
C4_ForegroundIffAtLeastAverage ==
    Rendered =>
        \A q \in MaskFragments :
            OpaqueSource(q) =>
                (fbData["brightnessSplit"][q].r = 255
                    <=> Luma(SourcePixel(q)) >= 1000 * CellAverageOf(q))

\* C4 (amended): for every opaque source pixel the output is 1.0 iff the
\* pixel's luminance is at least its cell's stored average brightness minus
\* the epsilon 0.01, and 0.0 otherwise.
C4_ForegroundIffWithinEpsilon ==
    Rendered =>
        \A q \in MaskFragments :
            OpaqueSource(q) =>
                /\ fbData["brightnessSplit"][q].r = 255
                     <=> Luma(SourcePixel(q)) >= 1000 * CellAverageOf(q) - 2550
                /\ fbData["brightnessSplit"][q].r \in {0, 255}

\* A rendered mask with a 1.0 pixel darker than its cell average and a 0.0
\* pixel.
C4_Witness ==
    /\ Rendered
    /\ \E q \in MaskFragments :
          /\ OpaqueSource(q)
          /\ Luma(SourcePixel(q)) < 1000 * CellAverageOf(q)
          /\ fbData["brightnessSplit"][q].r = 255
    /\ \E q \in MaskFragments :
          OpaqueSource(q) /\ fbData["brightnessSplit"][q].r = 0


\* The k-th sub-sample that the colour sampler reads for cell p: the source
\* colour and the mask value at the same coordinate.
ColorSubSample(p, k) ==
    LET sc == CellSampleCoord(grid.cols, grid.rows, shaders.colorSample.u,
                              shaders.colorSample.f, p[1], p[2],
                              SubSamples(shaders.colorSample.u, shaders.colorSample.f)[k])
        c == SampleCapture(capture, sc[1], sc[2])
    IN  [rgb |-> <<c.r, c.g, c.b>>,
         mask |-> SampleFb(fbSize["brightnessSplit"], fbData["brightnessSplit"],
                           sc[1], sc[2]).r]

ColorSubSampleCount == shaders.colorSample.u * shaders.colorSample.f

\* Rank 1 is a mask value above 0.5, rank 2 a mask value of at most 0.5.
InRank(rank, mask) == IF rank = 1 THEN 2 * mask > 255 ELSE 2 * mask <= 255

\* The sub-samples of cell p that match the rank.
RankSamples(p, rank) ==
    {k \in 1 .. ColorSubSampleCount : InRank(rank, ColorSubSample(p, k).mask)}

\* The first encounters of the distinct colours of the rank, and those of
\* them that find a bucket.
FirstEncounters(p, rank) ==
    {k \in RankSamples(p, rank) :
        \A j \in RankSamples(p, rank) :
            j < k => ColorSubSample(p, j).rgb # ColorSubSample(p, k).rgb}

Tallied(p, rank) ==
    {k \in FirstEncounters(p, rank) :
        Cardinality({j \in FirstEncounters(p, rank) : j < k}) < ColorBuckets}

Occurrences(p, rank, k) ==
    Cardinality({j \in RankSamples(p, rank) :
                    ColorSubSample(p, j).rgb = ColorSubSample(p, k).rgb})

\* k is the first encounter of the most frequent tallied colour, the earliest
\* encountered among those of equal count.
MostFrequentTallied(p, rank, k) ==
    /\ k \in Tallied(p, rank)
    /\ \A j \in Tallied(p, rank) :
          \/ Occurrences(p, rank, k) > Occurrences(p, rank, j)
          \/ Occurrences(p, rank, k) = Occurrences(p, rank, j) /\ k <= j

ColorBufferOf(rank) == IF rank = 1 THEN "primaryColor" ELSE "secondaryColor"

\* C5: for each cell and rank with a matching sub-sample, the sampled colour
\* is the most frequent of the colours tallied in the 16 buckets among the
\* sub-samples matching the rank, the first encountered among equal counts.
C5_MostFrequentFirstEncountered ==
    Rendered =>
        \A p \in Cells, rank \in {1, 2} :
            RankSamples(p, rank) # {} =>
                \E k \in RankSamples(p, rank) :
                    /\ MostFrequentTallied(p, rank, k)
                    /\ fbData[ColorBufferOf(rank)][p] =
                         RGBA(ColorSubSample(p, k).rgb[1], ColorSubSample(p, k).rgb[2],
                              ColorSubSample(p, k).rgb[3], 255)

\* A rendered cell where two different colours of one rank share the highest
\* count and the first encountered was returned.
C5_Witness ==
    /\ Rendered
    /\ \E p \in Cells, rank \in {1, 2} :
          \E k, j \in Tallied(p, rank) :
              /\ k < j
              /\ MostFrequentTallied(p, rank, k)
              /\ Occurrences(p, rank, k) = Occurrences(p, rank, j)
              /\ fbData[ColorBufferOf(rank)][p] =
                   RGBA(ColorSubSample(p, k).rgb[1], ColorSubSample(p, k).rgb[2],
                        ColorSubSample(p, k).rgb[3], 255)

\* A rendered cell where a rank holds more distinct colours than buckets.
BucketsOverflowed ==
    /\ Rendered
    /\ \E p \in Cells, rank \in {1, 2} :
          Cardinality(FirstEncounters(p, rank)) > ColorBuckets


----------------------------------------------------------------------------
(* Properties of the renderer's lifecycle (under Spec)                      *)

\* The commands of the pass that render() ran on a buffer.
PassOf(target) ==
    LET b == CHOOSE i \in 1 .. Len(log) : log[i] = Cmd("begin", target)
        e == CHOOSE i \in 1 .. Len(log) : log[i] = Cmd("end", target)
    IN  SubSeq(log, b, e)

\* The pass on the buffer filled it with the colour and used no shader.
FlatFill(target, color) ==
    /\ PassOf(target) = <<Cmd("begin", target), Cmd("background", color),
                          Cmd("end", target)>>
    /\ \A p \in Fragments(fbSize[target]) : fbData[target][p] = ColorOf(color)

OwnBuffersMatch ==
    /\ fbSize["brightnessSample"] = <<grid.cols, grid.rows>>
    /\ fbSize["brightnessSplit"] = <<capture.width, capture.height>>

\* C7: resizeFramebuffers() leaves the shader programs unchanged and sets the
\* brightness map to (cols, rows) and the mask to the capture's (width,
\* height); so every render() starts with both matching the current grid and
\* capture.
C7_ResizeMatchesGridAndCapture ==
    [][/\ lastOp' = "resizeFramebuffers" => (shaders' = shaders /\ OwnBuffersMatch')
       /\ lastOp' = "render" => OwnBuffersMatch]_vars

\* resizeFramebuffers() has run after a change of the canvas or the font, on
\* a grid whose dimensions differ from each other and from the capture's.
C7_Witness ==
    /\ lastOp = "resizeFramebuffers"
    /\ prevOp \in {"hostResize", "hostSetFontSize"}
    /\ OwnBuffersMatch
    /\ grid.cols # grid.rows
    /\ <<grid.cols, grid.rows>> # <<capture.width, capture.height>>

PassOrder ==
    <<"brightnessSample", "brightnessSplit", "primaryColor", "secondaryColor",
      "transform", "rotation", "character">>

IsBegin(c) == c.op = "begin"
IsEnd(c) == c.op = "end"
Targets(cmds) == [i \in 1 .. Len(cmds) |-> cmds[i].arg]

\* The commands from index i on are one pass: begin, a clear or a fill, at
\* most one draw, end, and then the log ends or the next pass begins.
WellFormedPassAt(i) ==
    /\ i + 1 <= Len(log)
    /\ log[i + 1].op \in {"clear", "background"}
    /\ \E j \in i + 2 .. Len(log) :
          /\ log[j] = Cmd("end", log[i].arg)
          /\ \A k \in i + 2 .. j - 1 :
                log[k].op \notin {"begin", "end", "clear", "background"}
          /\ Cardinality({k \in i + 2 .. j - 1 : log[k].op = "rect"}) <= 1
          /\ j = Len(log) \/ log[j + 1].op = "begin"

\* C8: render() runs the seven passes once each in the order brightness
\* sample, brightness split, primary colour, secondary colour, transform,
\* rotation, character; each pass is begin, a clear or a fill, at most one
\* draw, end.
C8_SevenPassesInOrder ==
    Rendered =>
        /\ Targets(SelectSeq(log, IsBegin)) = PassOrder
        /\ Targets(SelectSeq(log, IsEnd)) = PassOrder
        /\ log[1].op = "begin"
        /\ \A i \in 1 .. Len(log) : log[i].op = "begin" => WellFormedPassAt(i)

\* A rendered frame with a filled colour pass and a drawn colour pass.
C8_Witness ==
    /\ Rendered
    /\ Len(PassOf("primaryColor")) = 3
    /\ \E i \in 1 .. Len(PassOf("secondaryColor")) :
          PassOf("secondaryColor")[i] = Cmd("rect", "secondaryColor")


----------------------------------------------------------------------------
(* Properties of loading (under SpecLoad)                                   *)

\* A function of the base class's name is a global of the window.
FunctionOnWindow ==
    /\ env.hasWindow
    /\ \E i \in 1 .. Len(env.keys) : env.keys[i] = BaseClassName
    /\ env.globalType = "function"

\* C9: once the module has been evaluated, the base class is the one the
\* imported host module exposes if it exposes one; otherwise the function of
\* that name on the window if there is one; otherwise no class is defined and
\* the error names P5AsciifyAbstractFeatureRenderer2D and lists the window's
\* keys that contain "asciify" or "p5", or says that there are none.
C9_BaseClassResolvedOrDescriptiveError ==
    loadState # "unloaded" =>
        IF env.module = "class"
        THEN loadState = "loaded" /\ cachedBaseClass = "module"
        ELSE IF FunctionOnWindow
        THEN loadState = "loaded" /\ cachedBaseClass = "window"
        ELSE /\ loadState = "failed"
             /\ cachedBaseClass = "null"
             /\ loadError.name = "Error"
             /\ loadError.missing = BaseClassName
             /\ loadError.globals = SelectSeq(env.keys, IsRelatedGlobal)
             /\ loadError.hint = IF loadError.globals = <<>>
                                 THEN "No related globals found."
                                 ELSE "Found related globals: "


----------------------------------------------------------------------------
(* End to end (under SpecShade)                                             *)

\* A uniform opaque mid-gray capture over a grid of one cell, the palette a
\* space and a full block.
UniformGrayCell ==
    /\ capture.scene = "gray"
    /\ grid.cols = 1 /\ grid.rows = 1
    /\ font.palette = <<0, 1>>

\* C10: for a uniform opaque gray capture on a 1x1 grid whose palette is a
\* space and a full block, after render() the brightness map holds one value,
\* the mask is uniform, the primary and the secondary colour are that gray,
\* and the character buffer encodes one of the two glyphs, of an error no
\* higher than the other's; a second render() of the same input leaves the
\* buffers as they are.
C10_UniformGrayEndToEnd ==
    /\ []((Rendered /\ UniformGrayCell) =>
            /\ DOMAIN fbData["brightnessSample"] = {<<0, 0>>}
            /\ fbData["brightnessSample"][<<0, 0>>].r = 128
            /\ \A q, r \in MaskFragments :
                  fbData["brightnessSplit"][q] = fbData["brightnessSplit"][r]
            /\ fbData["primaryColor"][<<0, 0>>] = Gray(128)
            /\ fbData["secondaryColor"][<<0, 0>>] = Gray(128)
            /\ EmittedIndex(<<0, 0>>) \in {0, 1}
            /\ \A m \in {0, 1} :
                  CellError(<<0, 0>>, EmittedIndex(<<0, 0>>)) <= CellError(<<0, 0>>, m))
    /\ [][(Rendered /\ UniformGrayCell /\ lastOp' = "render" /\ capture' = capture)
            => fbData' = fbData]_vars

\* The second render() of a uniform gray cell of more than one pixel.
C10_Witness ==
    /\ Rendered /\ prevOp = "render"
    /\ UniformGrayCell
    /\ grid.cellWidth * grid.cellHeight > 1
    /\ fbData["primaryColor"][<<0, 0>>] = Gray(128)
    /\ EmittedIndex(<<0, 0>>) = 1


----------------------------------------------------------------------------
(* Properties of creation (under SpecCreate)                                *)

\* The value the caller configured for key k, if any.
CallerHas(k) == hostSync.createArg.given /\ k \in DOMAIN hostSync.createArg.obj

\* C11: the options handed to the base class at construction hold, for every
\* recognized key, the caller's value if the caller's object has the key and
\* the default's otherwise; without an options argument they are exactly
\* ACCURATE_DEFAULT_OPTIONS; and ACCURATE_DEFAULT_OPTIONS is never modified.
C11_OptionDefaults ==
    /\ defaultOptions = ACCURATE_DEFAULT_OPTIONS
    /\ lastOp = "constructor" =>
          /\ \A k \in DOMAIN ACCURATE_DEFAULT_OPTIONS :
                /\ k \in DOMAIN options
                /\ options[k] = IF CallerHas(k) THEN hostSync.createArg.obj[k]
                                ELSE ACCURATE_DEFAULT_OPTIONS[k]
          /\ ~hostSync.createArg.given => options = ACCURATE_DEFAULT_OPTIONS

\* update() has run on a renderer created with an object that has some keys
\* (here the rotation angle) and lacks others (here the inversion and the
\* characters); the module's defaults are as they were.
C11_Witness ==
    /\ lastOp = "update" /\ prevOp = "constructor"
    /\ options.rotationAngle = OtherValue("rotationAngle")
    /\ options.invertMode = ACCURATE_DEFAULT_OPTIONS.invertMode
    /\ options.characters = DefaultCharacters
    /\ options.characterColorMode = JsNum(1)
    /\ defaultOptions.characterColorMode = JsStr("sampled")

\* A renderer created without options.
CreatedWithoutOptions ==
    /\ lastOp = "constructor"
    /\ ~hostSync.createArg.given
    /\ options = ACCURATE_DEFAULT_OPTIONS
    /\ optionsRef = "merged"


----------------------------------------------------------------------------
(* The matcher's output encoding (under SpecShade)                          *)

\* The position (from 1) of the palette entry the matcher settles on.
WinningEntry(p) == BestEntry(p, Min(Len(font.palette), MaxPaletteLoop))

\* The character buffer holds index idx for cell p as two base-256 digits.
EncodesIndex(p, idx) ==
    LET out == fbData["character"][p]
    IN  /\ out.a = 255 /\ out.b = 0
        /\ out.r = idx % 256 /\ out.g = idx \div 256
        /\ out.r + 256 * out.g = idx
        /\ out # Zero4

\* C12 (as stated): for every non-transparent cell the output is opaque with
\* blue 0 and holds, as low byte in red and high byte in green, the index in
\* the palette (counted from 0) of the winning entry, which decoding returns.
C12_EncodesPalettePosition ==
    Rendered =>
        \A p \in Cells :
            (~CellFullyTransparent(p) /\ Len(font.palette) > 0)
                => EncodesIndex(p, WinningEntry(p) - 1)

\* C12 (amended): for every non-transparent cell the output is opaque with
\* blue 0 and holds, as low byte in red and high byte in green, the glyph
\* index that the winning palette entry stores (the glyph's place in the
\* atlas); decoding red + 256 * green returns it for every index below 65536,
\* and the output for index 0 differs from the all-zero sentinel.
C12_EncodesStoredGlyphIndex ==
    Rendered =>
        \A p \in Cells :
            (~CellFullyTransparent(p) /\ Len(font.palette) > 0
                /\ font.palette[WinningEntry(p)] < IndexLimit)
                => EncodesIndex(p, font.palette[WinningEntry(p)])

\* A rendered cell whose winning entry stores an index of two digits that is
\* not its position in the palette.
C12_Witness ==
    /\ Rendered
    /\ \E p \in Cells :
          /\ ~CellFullyTransparent(p)
          /\ Len(font.palette) \in 1 .. MaxPaletteLen
          /\ font.palette[WinningEntry(p)] = 256 * 255 + 255
          /\ fbData["character"][p] = RGBA(255, 255, 0, 255)

\* A rendered opaque cell that holds index 0.
IndexZeroEmitted ==
    /\ Rendered
    /\ \E p \in Cells :
          /\ ~CellFullyTransparent(p)
          /\ Len(font.palette) \in 1 .. MaxPaletteLen
          /\ font.palette[WinningEntry(p)] = 0
          /\ fbData["character"][p] = RGBA(0, 0, 0, 255)

----------------------------------------------------------------------------
(* Properties of the colour sampler's fallback (under SpecShade)            *)

\* The source pixel at the centre of cell p: texture2D(u_inputImage, k).
CellCentrePixel(p) ==
    SampleCapture(capture, <<2 * p[1] + 1, 2 * grid.cols>>,
                           <<2 * p[2] + 1, 2 * grid.rows>>)

\* C13: a cell none of whose sub-samples matches rank 2 gets the colour of
\* the source pixel at the cell's centre as its secondary colour; a cell none
\* of whose sub-samples matches rank 1 gets black as its primary colour; the
\* alpha of both is 1.
C13_EmptyRankFallback ==
    Rendered =>
        \A p \in Cells :
            /\ RankSamples(p, 2) = {} =>
                  fbData["secondaryColor"][p] =
                      RGBA(CellCentrePixel(p).r, CellCentrePixel(p).g,
                           CellCentrePixel(p).b, 255)
            /\ RankSamples(p, 1) = {} =>
                  fbData["primaryColor"][p] = RGBA(0, 0, 0, 255)

\* One render with a cell of no rank-2 sub-sample whose centre pixel is not
\* black, and a cell of no rank-1 sub-sample.
C13_Witness ==
    /\ Rendered
    /\ \E p \in Cells :
          /\ RankSamples(p, 2) = {}
          /\ CellCentrePixel(p).r > 0
          /\ fbData["secondaryColor"][p].r = CellCentrePixel(p).r
    /\ \E p \in Cells :
          /\ RankSamples(p, 1) = {}
          /\ fbData["primaryColor"][p] = RGBA(0, 0, 0, 255)

\* A cell of no rank-1 sub-sample whose centre pixel is not black.
EmptyRankOneOverColour ==
    /\ Rendered
    /\ \E p \in Cells :
          /\ RankSamples(p, 1) = {}
          /\ CellCentrePixel(p).r > 0
          /\ fbData["primaryColor"][p] = RGBA(0, 0, 0, 255)

----------------------------------------------------------------------------
(* Properties of the brightness sampler (under SpecShade)                   *)

\* The sub-samples of a cell: one per pair of loop counters.
BrightnessSubSamples ==
    (0 .. shaders.brightnessSample.u - 1) \X (0 .. shaders.brightnessSample.f - 1)

\* The coordinate at which sub-sample sg of cell p reads the capture.
BrightnessCoord(p, sg) ==
    CellSampleCoord(grid.cols, grid.rows, shaders.brightnessSample.u,
                    shaders.brightnessSample.f, p[1], p[2], sg)

\* The luminance that sub-sample sg of cell p reads.
BrightnessSubSampleLuma(p, sg) ==
    LET c == BrightnessCoord(p, sg)
    IN  Luma(SampleCapture(capture, c[1], c[2]))

\* The sum of the luminance over a set of sub-samples of cell p.
RECURSIVE LumaTotal(_, _)
LumaTotal(p, S) ==
    IF S = {} THEN 0
    ELSE LET sg == CHOOSE x \in S : TRUE
         IN  BrightnessSubSampleLuma(p, sg) + LumaTotal(p, S \ {sg})

\* A rational coordinate c lies in the c0-th of n equal parts of [0,1].
InPart(c, c0, n) == c0 * c[2] <= c[1] * n /\ c[1] * n <= (c0 + 1) * c[2]

\* C14: the brightness map holds one value per grid cell, the mean of the
\* luminance over the cellHeight*cellWidth sub-samples of the cell (as a
\* byte), and every sub-sample coordinate lies inside the cell's part of the
\* capture and inside [0,1].
C14_BrightnessIsCellMean ==
    Rendered =>
        /\ DOMAIN fbData["brightnessSample"] =
              (0 .. grid.cols - 1) \X (0 .. grid.rows - 1)
        /\ Cardinality(BrightnessSubSamples) = grid.cellHeight * grid.cellWidth
        /\ \A p \in DOMAIN fbData["brightnessSample"] :
              /\ fbData["brightnessSample"][p] =
                    Gray(ToByte(LumaTotal(p, BrightnessSubSamples),
                                grid.cellHeight * grid.cellWidth))
              /\ \A sg \in BrightnessSubSamples :
                    /\ InPart(BrightnessCoord(p, sg)[1], p[1], grid.cols)
                    /\ InPart(BrightnessCoord(p, sg)[2], p[2], grid.rows)
                    /\ InPart(BrightnessCoord(p, sg)[1], 0, 1)
                    /\ InPart(BrightnessCoord(p, sg)[2], 0, 1)

\* A rendered grid of more than one cell with a cell whose sub-samples read
\* different luminances, the value of the cell lying strictly between them.
C14_Witness ==
    /\ Rendered
    /\ grid.cols * grid.rows > 1
    /\ grid.cellHeight * grid.cellWidth > 1
    /\ \E p \in DOMAIN fbData["brightnessSample"] :
          \E a, b \in BrightnessSubSamples :
              /\ BrightnessSubSampleLuma(p, a) < 1000 * fbData["brightnessSample"][p].r
              /\ 1000 * fbData["brightnessSample"][p].r < BrightnessSubSampleLuma(p, b)

----------------------------------------------------------------------------
(* Properties of the buffer binding within render() (under Spec)            *)

\* The buffers between begin and end after the i-th command of the log.
BoundAfter(i) ==
    {n \in FbNames :
        Cardinality({j \in 1 .. i : log[j] = Cmd("begin", n)})
            > Cardinality({j \in 1 .. i : log[j] = Cmd("end", n)})}

\* The i-th command binds a buffer of this renderer as a texture.
SamplesBuffer(i) == log[i].op = "texture" /\ log[i].arg \in FbNames

\* Buffer n was begun, drawn into and ended before the i-th command.
WrittenBefore(n, i) ==
    \E b, d, e \in 1 .. i - 1 :
        /\ b < d /\ d < e
        /\ log[b] = Cmd("begin", n)
        /\ log[d] = Cmd("rect", n)
        /\ log[e] = Cmd("end", n)

\* The passes that read each buffer.
ReadersOf(n) ==
    CASE n = "brightnessSample" -> {"brightnessSplit"}
      [] n = "brightnessSplit"  -> {"primaryColor", "secondaryColor", "character"}
      [] OTHER                  -> {}

\* C15: within one render() at most one buffer is between begin and end at
\* any moment, every begin is followed by its end and none is left bound at
\* the return, and a buffer bound as a texture (the brightness map in the
\* split pass, the mask in the colour passes and the character pass) was
\* begun, drawn and ended earlier in the same call and is not the one being
\* drawn into.
C15_BeginEndDiscipline ==
    Rendered =>
        /\ \A i \in 0 .. Len(log) : Cardinality(BoundAfter(i)) <= 1
        /\ BoundAfter(Len(log)) = {}
        /\ \A i \in 1 .. Len(log) :
              log[i].op = "begin" =>
                  \E j \in i + 1 .. Len(log) :
                      /\ log[j] = Cmd("end", log[i].arg)
                      /\ \A k \in i + 1 .. j - 1 : log[k].op \notin {"begin", "end"}
        /\ \A i \in 1 .. Len(log) :
              SamplesBuffer(i) =>
                  /\ WrittenBefore(log[i].arg, i)
                  /\ log[i].arg \notin BoundAfter(i)
                  /\ BoundAfter(i) \subseteq ReadersOf(log[i].arg)

\* A render() whose split pass read the brightness map and whose colour
\* passes and character pass read the mask.
C15_Witness ==
    /\ Rendered
    /\ \E i \in 1 .. Len(log) :
          log[i] = Cmd("texture", "brightnessSample") /\ BoundAfter(i) = {"brightnessSplit"}
    /\ \A n \in ReadersOf("brightnessSplit") :
          \E i \in 1 .. Len(log) :
              log[i] = Cmd("texture", "brightnessSplit") /\ BoundAfter(i) = {n}

----------------------------------------------------------------------------
(* Properties of resetShaders() (under Spec)                                *)

\* The loop bounds of the three generated shaders are those of the font size
\* and the cell dimensions given.
LoopBoundsOf(sh, fnt, g) ==
    /\ sh.characterSelection.N = fnt.fontSize
    /\ sh.brightnessSample.u * sh.brightnessSample.f = g.cellHeight * g.cellWidth
    /\ {sh.brightnessSample.u, sh.brightnessSample.f} = {g.cellHeight, g.cellWidth}
    /\ sh.colorSample.u = sh.brightnessSample.u
    /\ sh.colorSample.f = sh.brightnessSample.f

\* C16: resetShaders() regenerates the matcher from the current font size and
\* the two samplers from the current cell height and width, and leaves the
\* framebuffers, their dimensions and the options as they are; a render()
\* that follows it runs with these loop bounds.
C16_ResetShadersRecompiles ==
    [][/\ lastOp' = "resetShaders" =>
             /\ LoopBoundsOf(shaders', font, grid)
             /\ fbSize' = fbSize /\ fbData' = fbData /\ options' = options
       /\ (lastOp = "resetShaders" /\ lastOp' = "render") =>
             /\ LoopBoundsOf(shaders', font', grid')
             /\ fbData' = RenderData(capture', grid', font', pixelDensity', options',
                                     GeneratedShaders(font', grid'), fbSize').data
             /\ Len(GlyphSamples(shaders'.characterSelection.N))
                   = font'.fontSize * font'.fontSize]_vars

\* resetShaders() has run right after a change of the font size, before the
\* framebuffers were resized: the shaders carry the new bounds and the
\* framebuffers their old dimensions.
C16_Witness ==
    /\ lastOp = "resetShaders" /\ prevOp = "hostSetFontSize"
    /\ LoopBoundsOf(shaders, font, grid)
    /\ fbSize # FramebufferSizes(grid, capture)

\* A render() that follows resetShaders().
RenderedAfterReset ==
    /\ Rendered /\ prevOp = "resetShaders"
    /\ LoopBoundsOf(shaders, font, grid)

----------------------------------------------------------------------------
(* Properties across frames (under Spec)                                    *)

\* The contents of the seven buffers as the capture, the grid, the font with
\* its palette and the options alone determine them.
FrameOf(cap, g, fnt, density, o) ==
    RenderData(cap, g, fnt, density, o, GeneratedShaders(fnt, g),
               FramebufferSizes(g, cap)).data

\* Every buffer is cleared or filled right after its begin.
EveryBufferOverwritten ==
    \A n \in FbNames :
        \E i \in 1 .. Len(log) - 1 :
            log[i] = Cmd("begin", n) /\ log[i + 1].op \in {"clear", "background"}

\* C17: after every render() each of the seven buffers has been cleared or
\* filled and holds, over its whole extent, what the capture, the grid, the
\* font's palette and the options at that call determine, whatever the frames
\* before; a render() that follows a render() of the same inputs leaves the
\* buffers as they are.
C17_NoCrossFrameState ==
    /\ [](Rendered =>
            /\ EveryBufferOverwritten
            /\ \A n \in FbNames :
                  DOMAIN fbData[n] = Fragments(FramebufferSizes(grid, capture)[n])
            /\ fbData = FrameOf(capture, grid, font, pixelDensity, options))
    /\ [][(lastOp = "render" /\ lastOp' = "render" /\ capture' = capture)
            => fbData' = fbData]_vars

\* A render() that follows the render() of another frame: this one has a
\* cell for which the matcher emits the sentinel.
C17_Witness ==
    /\ Rendered /\ prevOp = "render"
    /\ capture.scene = "edge"
    /\ \E p \in Cells : fbData["character"][p] = Zero4
    /\ \E p \in Cells : fbData["character"][p] # Zero4

----------------------------------------------------------------------------
(* The sub-sample grids of the passes (under SpecShade)                     *)

\* Two rational texture coordinates are the same position.
SamePosition(a, b) ==
    /\ a[1][1] * b[1][2] = b[1][1] * a[1][2]
    /\ a[2][1] * b[2][2] = b[2][1] * a[2][2]

\* The positions at which the matcher reads the mask for cell p.
MatcherPositions(p) ==
    {<<SubSampleCoord(p[1], fu[1], shaders.characterSelection.N, grid.cols),
       SubSampleCoord(p[2], fu[2], shaders.characterSelection.N, grid.rows)>> :
        fu \in {GlyphSamples(shaders.characterSelection.N)[k] :
                   k \in 1 .. MaskSampleCount}}

\* The positions at which the brightness sampler reads the capture for cell p.
BrightnessPositions(p) == {BrightnessCoord(p, sg) : sg \in BrightnessSubSamples}

\* The positions at which the colour sampler reads capture and mask for cell p.
ColorPositions(p) ==
    {CellSampleCoord(grid.cols, grid.rows, shaders.colorSample.u,
                     shaders.colorSample.f, p[1], p[2],
                     SubSamples(shaders.colorSample.u, shaders.colorSample.f)[k]) :
        k \in 1 .. ColorSubSampleCount}

\* Two sets of positions hold the same positions.
SamePositions(A, B) ==
    /\ \A a \in A : \E b \in B : SamePosition(a, b)
    /\ \A b \in B : \E a \in A : SamePosition(a, b)

\* The matcher and the samplers read cell p at the same number of the same
\* positions.
SameGrid(p) ==
    /\ MaskSampleCount = Cardinality(BrightnessSubSamples)
    /\ MaskSampleCount = ColorSubSampleCount
    /\ SamePositions(MatcherPositions(p), BrightnessPositions(p))
    /\ SamePositions(MatcherPositions(p), ColorPositions(p))

\* C18 as stated: for every font size and cell dimensions, the matcher reads
\* each cell at the same number of sub-samples, at the same positions, as
\* the brightness sampler and the colour sampler do.
C18_SameSubSampleGrid == \A p \in Cells : SameGrid(p)

\* C18 as the code has it: the matcher reads fontSize x fontSize sub-samples
\* per cell, the two samplers cellHeight x cellWidth, the samplers at the same
\* positions as each other; the matcher's grid is that of the samplers exactly
\* when cell width and cell height both equal the font size.
C18_SameGridIffCellIsFontSize ==
    /\ MaskSampleCount = font.fontSize * font.fontSize
    /\ Cardinality(BrightnessSubSamples) = grid.cellHeight * grid.cellWidth
    /\ ColorSubSampleCount = grid.cellHeight * grid.cellWidth
    /\ \A p \in Cells :
          /\ Cardinality(MatcherPositions(p)) = MaskSampleCount
          /\ SamePositions(BrightnessPositions(p), ColorPositions(p))
          /\ SameGrid(p) <=>
                (grid.cellWidth = font.fontSize /\ grid.cellHeight = font.fontSize)

\* A rendered frame of a font whose cells are narrower than the font size:
\* the matcher read more sub-samples per cell than the samplers.
C18_Witness ==
    /\ Rendered
    /\ grid.cellWidth < font.fontSize
    /\ MaskSampleCount > ColorSubSampleCount
    /\ \E p \in Cells : ~SameGrid(p)

\* A rendered frame of a font whose cells are as wide and as high as the font
\* size, of more than one sub-sample: the grids coincide.
SquareCellsSameGrid ==
    /\ Rendered
    /\ MaskSampleCount > 1
    /\ \A p \in Cells : SameGrid(p)

----------------------------------------------------------------------------
(* Render and the lifecycle hooks (under Spec)                              *)

\* No buffer is left between begin and end by the commands issued so far.
NoBufferBound == BoundAfter(Len(log)) = {}

\* C19: a render() is one step that issues all seven passes and returns with
\* no buffer bound, resizing no buffer and compiling no shader; a
\* resizeFramebuffers() or resetShaders() step starts with no buffer between
\* begin and end and issues no drawing command.
C19_RenderNeverOverlapsResize ==
    [][/\ lastOp' = "render" =>
             /\ fbSize' = fbSize
             /\ shaders' = shaders
             /\ Targets(SelectSeq(log', IsEnd)) = PassOrder
             /\ NoBufferBound'
       /\ lastOp' \in {"resizeFramebuffers", "resetShaders"} =>
             /\ NoBufferBound
             /\ log' = log]_vars

\* resizeFramebuffers() has run right after a render(), all of whose passes
\* had ended.
C19_Witness ==
    /\ lastOp = "resizeFramebuffers" /\ prevOp = "render"
    /\ Targets(SelectSeq(log, IsEnd)) = PassOrder
    /\ NoBufferBound

\* resetShaders() has run right after a render().
ResetAfterRender ==
    /\ lastOp = "resetShaders" /\ prevOp = "render"
    /\ NoBufferBound

----------------------------------------------------------------------------
(* The colour modes in render() (under Spec)                                *)

\* The pass on the buffer cleared it and drew with the colour sampler of the
\* given rank.
SampledBy(target, rank) ==
    /\ PassOf(target) = <<Cmd("begin", target), Cmd("clear", target),
                          Cmd("shader", "colorSample"), Cmd("texture", "capture"),
                          Cmd("texture", "brightnessSplit"), Cmd("rect", target),
                          Cmd("end", target)>>
    /\ fbData[target] =
          ColorSamplePass(capture, grid, shaders, fbSize["brightnessSplit"],
                          fbData["brightnessSplit"], rank, fbSize[target])

\* The values a colour mode can be stored as.
StoredModes == {JsNum(0), JsNum(1), JsStr("sampled"), JsStr("fixed")}

\* The frame as it would be with the two modes stored as cm and bm.
FrameWithModes(cm, bm) ==
    FrameOf(capture, grid, font, pixelDensity,
            [options EXCEPT !.characterColorMode = cm, !.backgroundColorMode = bm])

FilledAndSampled ==
    /\ Rendered
    /\ options.characterColorMode = JsNum(1)
    /\ options.backgroundColorMode = JsNum(0)
    /\ FlatFill("primaryColor", options.characterColor)
    /\ SampledBy("secondaryColor", 2)
    /\ fbData["secondaryColor"] # fbData["primaryColor"]

============================================================================
